---- MODULE Spec2Model ----
(***************************************************************************)
(* Model of vdc.js, the msg Cloud vDC command-line interface: the command  *)
(* dispatcher, the power workflow (vdcPower), the exec workflow            *)
(* (sshCommand) and the central error handler.  One action models the code *)
(* that runs between two awaits.  Every request issued, every response     *)
(* observed and every line written to the console is appended to `trace`.  *)
(***************************************************************************)
EXTENDS FiniteSets, Integers, Sequences, TLC

VARIABLES command, password, arg, pc, idx, vmcur, vmmax, name2id,
          inflight, timer, open, trace, exitCode, err

vars == <<command, password, arg, pc, idx, vmcur, vmmax, name2id,
          inflight, timer, open, trace, exitCode, err>>

(* ---------------------------- bounds ---------------------------------- *)
\* longest command-line list argument, in characters
MaxArg == 5
\* largest number of comma-separated elements of a list argument
MaxTargets == 3

(* ------------------------ program constants --------------------------- *)
DelayMs == 10000
ReadyTimeout == 5000

(* ----------------------------- inputs --------------------------------- *)
Comma == ","
ArgChars == {"a", Comma}
Ids == {"id1", "id2"}
ServerNames == {<<"a">>, <<"a", "a">>}
Undefined == "undefined"
Markers == <<"user", "token", "api">>
LineTerminators == {"LF", "CR"}
OutputSamples == {<<>>, <<"x">>, <<"LF">>, <<"x", "LF">>, <<"x", "LF", "x">>}

(* vms.split(/,/) and hosts.split(/,/): cut at every comma, keeping empty  *)
(* elements; a string without comma yields one element                     *)
RECURSIVE Split(_)
Split(s) ==
    IF \E k \in 1..Len(s) : s[k] = Comma
    THEN LET k == CHOOSE c \in 1..Len(s) :
                      s[c] = Comma /\ \A j \in 1..(c - 1) : s[j] # Comma
         IN  <<SubSeq(s, 1, k - 1)>> \o Split(SubSeq(s, k + 1, Len(s)))
    ELSE <<s>>

Args == {s \in UNION {[1..n -> ArgChars] : n \in 0..MaxArg} :
             Len(Split(s)) <= MaxTargets}

\* the list the per-target loop iterates over
targets == Split(arg)

\* the body of the servers response: identifiers in key order, with names
ServerLists ==
    {s \in UNION {[1..n -> [id : Ids, name : ServerNames]] :
                      n \in 0..Cardinality(Ids)} :
         \A i, j \in 1..Len(s) : i # j => s[i].id # s[j].id}

\* the panel page: which of the three markers its text matches
PanelResponses == [user : BOOLEAN, token : BOOLEAN, api : BOOLEAN]

(* ------------------------ pure parts of the code ---------------------- *)
Ev(op, i, a, ms) == [op |-> op, i |-> i, arg |-> a, ms |-> ms]

IsPower == command \in {"power-on", "power-off"}

\* the level argument of vdcPower, as sent in the PATCH body
level == IF command = "power-on" THEN "on" ELSE "off"

PromptNeededAlways(p) == TRUE

\* typeof opts.password !== "string"
PromptNeeded(p) == p = Undefined

MarkersFoundTwo(r) == r.user /\ r.token

\* the three destructured res.text.match(...) results; a null match throws
MarkersFound(r) == r.user /\ r.token /\ r.api

MarkersOf(r) == SelectSeq(Markers, LAMBDA m : r[m])

\* Object.keys(servers).forEach: a later key overwrites an equal name
RECURSIVE Name2Id(_)
Name2Id(s) ==
    IF s = <<>> THEN [n \in {} |-> Undefined]
    ELSE LET prev == Name2Id(SubSeq(s, 1, Len(s) - 1))
             last == s[Len(s)]
         IN  [n \in DOMAIN prev \cup {last.name} |->
                 IF n = last.name THEN last.id ELSE prev[n]]

\* name2id[vm]
Lookup(tbl, vm) == IF vm \in DOMAIN tbl THEN tbl[vm] ELSE Undefined

IsValidIdLax(id) == TRUE

\* typeof id === "string"
IsValidId(id) == id # Undefined

NeedDelayAlways(cur, max) == cur <= max

\* ++vmcur < vmmax
NeedDelay(cur, max) == cur < max

ShouldPrintAlways(out) == TRUE

\* result.stdout !== ""
ShouldPrint(out) == out # <<>>

\* `${opts.username}@${host}: `
Prefix(host) == <<"u", "@">> \o host \o <<":">>

\* result.stdout.replace(/^/mg, prefix): the prefix goes in at the start of
\* the text and after every line terminator, the end of the text included
RECURSIVE PrefixLines(_, _)
PrefixLines(out, p) ==
    IF out = <<>> THEN p
    ELSE LET front == SubSeq(out, 1, Len(out) - 1)
             c     == out[Len(out)]
         IN  PrefixLines(front, p) \o <<c>> \o
                 (IF c \in LineTerminators THEN p ELSE <<>>)

(* ------------------------------ state --------------------------------- *)
\* Caporal.parse has run: `command` is the matched command or null, the
\* options carry a password or none, nothing has been issued or printed
Init ==
    /\ command \in {"null", "power-on", "power-off", "exec"}
    /\ password \in {Undefined, "cli"}
    /\ arg \in Args
    /\ pc = "start"
    /\ idx = 1
    /\ vmcur = 0
    /\ vmmax = 0
    /\ name2id = [n \in {} |-> Undefined]
    /\ inflight = 0
    /\ timer = FALSE
    /\ open = {}
    /\ trace = <<>>
    /\ exitCode = -1
    /\ err = "none"

(* --------------------------- shared steps ----------------------------- *)
\* an exception leaves the workflow and rejects the outer promise
Throw(tr, e) ==
    /\ trace' = Append(tr, Ev("throw", idx, <<e>>, 0))
    /\ err' = e
    /\ pc' = "thrown"

\* the code after the password block: vdcPower posts the login request,
\* sshCommand enters its loop
BeginWorkflow(tr) ==
    IF IsPower
    THEN /\ trace' = Append(tr, Ev("login", 0, <<>>, 0))
         /\ inflight' = inflight + 1
         /\ pc' = "login"
    ELSE /\ trace' = tr
         /\ inflight' = inflight
         /\ pc' = "each"

\* Bluebird.each: the iterator's promise has resolved, go to the next element
EachNext ==
    /\ idx' = idx + 1
    /\ pc' = IF idx + 1 > Len(targets) THEN "finish" ELSE "each"

(* ------------------------------ actions ------------------------------- *)
\* dispatch according to command, up to the first await of the workflow
Dispatch ==
    /\ pc = "start"
    /\ IF command = "null"
       THEN /\ exitCode' = 1
            /\ pc' = "exited"
            /\ UNCHANGED <<trace, inflight>>
       ELSE /\ exitCode' = exitCode
            /\ IF PromptNeeded(password)
               THEN /\ trace' = Append(trace, Ev("prompt", 0, <<>>, 0))
                    /\ pc' = "prompt"
                    /\ inflight' = inflight
               ELSE BeginWorkflow(trace)
    /\ UNCHANGED <<command, password, arg, idx, vmcur, vmmax, name2id,
                   timer, open, err>>

\* the prompt answers: opts.password = answers.password
PromptReturn ==
    /\ pc = "prompt"
    /\ password' = "prompted"
    /\ BeginWorkflow(trace)
    /\ UNCHANGED <<command, arg, idx, vmcur, vmmax, name2id, timer, open,
                   exitCode, err>>

\* the prompt rejects (no terminal)
PromptFail ==
    /\ pc = "prompt"
    /\ Throw(trace, "prompt")
    /\ UNCHANGED <<command, password, arg, idx, vmcur, vmmax, name2id,
                   inflight, timer, open, exitCode>>

RequestFailIsolated ==
    /\ pc \in {"login", "panel", "servers", "power", "connect", "exec"}
    /\ inflight' = inflight - 1
    /\ IF command = "exec"
       THEN /\ trace' = Append(trace, Ev("fail", idx, <<pc>>, 0))
            /\ EachNext
            /\ err' = err
       ELSE /\ Throw(Append(trace, Ev("fail", idx, <<pc>>, 0)), "request")
            /\ idx' = idx
    /\ UNCHANGED <<command, password, arg, vmcur, vmmax, name2id, timer,
                   open, exitCode>>

\* the awaited request rejects: network error, non-success status, connect
\* timeout, failed command execution
RequestFail ==
    /\ pc \in {"login", "panel", "servers", "power", "connect", "exec"}
    /\ inflight' = inflight - 1
    /\ Throw(Append(trace, Ev("fail", idx, <<pc>>, 0)), "request")
    /\ UNCHANGED <<command, password, arg, idx, vmcur, vmmax, name2id,
                   timer, open, exitCode>>

\* the login response arrives: get the panel page
LoginReturn ==
    /\ pc = "login"
    /\ trace' = Append(trace, Ev("panel", 0, <<>>, 0))
    /\ inflight' = (inflight - 1) + 1
    /\ pc' = "panel"
    /\ UNCHANGED <<command, password, arg, idx, vmcur, vmmax, name2id,
                   timer, open, exitCode, err>>

\* the panel page arrives: extract user, token and API URL, list the servers
PanelReturn ==
    /\ pc = "panel"
    /\ \E r \in PanelResponses :
         LET tr == Append(trace, Ev("panelres", 0, MarkersOf(r), 0))
         IN  IF MarkersFound(r)
             THEN /\ trace' = Append(tr, Ev("servers", 0, <<>>, 0))
                  /\ inflight' = (inflight - 1) + 1
                  /\ pc' = "servers"
                  /\ err' = err
             ELSE /\ inflight' = inflight - 1
                  /\ Throw(tr, "TypeError")
    /\ UNCHANGED <<command, password, arg, idx, vmcur, vmmax, name2id,
                   timer, open, exitCode>>

\* the server list arrives: build name2id, set the counters, start the loop
ServersReturn ==
    /\ pc = "servers"
    /\ \E s \in ServerLists : name2id' = Name2Id(s)
    /\ inflight' = inflight - 1
    /\ vmmax' = Len(targets)
    /\ vmcur' = 0
    /\ pc' = "each"
    /\ UNCHANGED <<command, password, arg, idx, timer, open, trace,
                   exitCode, err>>

VmIterNoAwait ==
    /\ pc = "each"
    /\ IsPower
    /\ LET vm == targets[idx]
           id == Lookup(name2id, vm)
       IN  /\ trace' = trace \o <<Ev("status", idx, vm \o <<level>>, 0),
                                  Ev("power", idx, <<id, level>>, 0),
                                  Ev("delay", idx, <<>>, DelayMs)>>
           /\ inflight' = inflight + 1
           /\ timer' = TRUE
           /\ pc' = "delay"
    /\ UNCHANGED <<command, password, arg, idx, vmcur, vmmax, name2id,
                   open, exitCode, err>>

VmIterStatusLast ==
    /\ pc = "each"
    /\ IsPower
    /\ LET vm == targets[idx]
           id == Lookup(name2id, vm)
       IN  IF ~IsValidId(id)
           THEN /\ Throw(trace, "invalid VM name")
                /\ inflight' = inflight
           ELSE /\ trace' = trace \o <<Ev("power", idx, <<id, level>>, 0),
                                       Ev("status", idx, vm \o <<level>>, 0)>>
                /\ inflight' = inflight + 1
                /\ pc' = "power"
                /\ err' = err
    /\ UNCHANGED <<command, password, arg, idx, vmcur, vmmax, name2id,
                   timer, open, exitCode>>

\* one call of the vdcPower iterator, up to its PATCH request
VmIter ==
    /\ pc = "each"
    /\ IsPower
    /\ LET vm == targets[idx]
           id == Lookup(name2id, vm)
       IN  IF ~IsValidId(id)
           THEN /\ Throw(trace, "invalid VM name")
                /\ inflight' = inflight
           ELSE /\ trace' = trace \o <<Ev("status", idx, vm \o <<level>>, 0),
                                       Ev("power", idx, <<id, level>>, 0)>>
                /\ inflight' = inflight + 1
                /\ pc' = "power"
                /\ err' = err
    /\ UNCHANGED <<command, password, arg, idx, vmcur, vmmax, name2id,
                   timer, open, exitCode>>

\* the PATCH response arrives: count it, then pause or finish the iteration
PowerReturn ==
    /\ pc = "power"
    /\ inflight' = inflight - 1
    /\ vmcur' = vmcur + 1
    /\ IF NeedDelay(vmcur + 1, vmmax)
       THEN /\ trace' = Append(trace, Ev("delay", idx, <<>>, DelayMs))
            /\ timer' = TRUE
            /\ pc' = "delay"
            /\ idx' = idx
       ELSE /\ EachNext
            /\ UNCHANGED <<trace, timer>>
    /\ UNCHANGED <<command, password, arg, vmmax, name2id, open, exitCode,
                   err>>

\* setTimeout fires: the iteration is over
DelayExpire ==
    /\ pc = "delay"
    /\ timer' = FALSE
    /\ EachNext
    /\ UNCHANGED <<command, password, arg, vmcur, vmmax, name2id, inflight,
                   open, trace, exitCode, err>>

\* one call of the sshCommand iterator, up to ssh.connect
HostIter ==
    /\ pc = "each"
    /\ command = "exec"
    /\ LET host == targets[idx]
       IN  trace' = trace \o <<Ev("echo", idx, Prefix(host), 0),
                               Ev("connect", idx, host, ReadyTimeout)>>
    /\ inflight' = inflight + 1
    /\ pc' = "connect"
    /\ UNCHANGED <<command, password, arg, idx, vmcur, vmmax, name2id,
                   timer, open, exitCode, err>>

\* the connection is ready: run the command; nothing in the script ever
\* closes the connection
ConnectReturn ==
    /\ pc = "connect"
    /\ open' = open \cup {idx}
    /\ trace' = Append(trace, Ev("exec", idx, <<>>, 0))
    /\ inflight' = (inflight - 1) + 1
    /\ pc' = "exec"
    /\ UNCHANGED <<command, password, arg, idx, vmcur, vmmax, name2id,
                   timer, exitCode, err>>

\* the command's result arrives: print its output if there is any
ExecReturn ==
    /\ pc = "exec"
    /\ inflight' = inflight - 1
    /\ \E out \in OutputSamples :
         LET tr == Append(trace, Ev("stdout", idx, out, 0))
         IN  trace' = IF ShouldPrint(out)
                      THEN Append(tr, Ev("print", idx,
                                  PrefixLines(out, Prefix(targets[idx])), 0))
                      ELSE tr
    /\ EachNext
    /\ UNCHANGED <<command, password, arg, vmcur, vmmax, name2id, timer,
                   open, exitCode, err>>

\* die gracefully: process.exit(0) after the workflow has returned
Exit0 ==
    /\ pc = "finish"
    /\ exitCode' = 0
    /\ pc' = "exited"
    /\ UNCHANGED <<command, password, arg, idx, vmcur, vmmax, name2id,
                   inflight, timer, open, trace, err>>

CatchHandlerExit0 ==
    /\ pc = "thrown"
    /\ trace' = trace \o <<Ev("errlog", 0, <<err>>, 0),
                           Ev("errlog", 0, <<err>>, 0)>>
    /\ exitCode' = 0
    /\ pc' = "exited"
    /\ UNCHANGED <<command, password, arg, idx, vmcur, vmmax, name2id,
                   inflight, timer, open, err>>

\* central error handling: two lines on the console, then process.exit(1)
CatchHandler ==
    /\ pc = "thrown"
    /\ trace' = trace \o <<Ev("errlog", 0, <<err>>, 0),
                           Ev("errlog", 0, <<err>>, 0)>>
    /\ exitCode' = 1
    /\ pc' = "exited"
    /\ UNCHANGED <<command, password, arg, idx, vmcur, vmmax, name2id,
                   inflight, timer, open, err>>

Next ==
    \/ Dispatch
    \/ PromptReturn
    \/ PromptFail
    \/ RequestFail
    \/ LoginReturn
    \/ PanelReturn
    \/ ServersReturn
    \/ VmIter
    \/ PowerReturn
    \/ DelayExpire
    \/ HostIter
    \/ ConnectReturn
    \/ ExecReturn
    \/ Exit0
    \/ CatchHandler

Spec == Init /\ [][Next]_vars

(* ----------------------- reading the trace ---------------------------- *)
At(op) == {p \in 1..Len(trace) : trace[p].op = op}

Requests == {"login", "panel", "servers", "power", "connect", "exec"}

Only(ops) == SelectSeq(trace, LAMBDA e : e.op \in ops)

Thrown == At("throw") # {}

\* after the first exception nothing but the handler's two lines follows
NothingAfterThrow ==
    \A p \in At("throw") : \A q \in (p + 1)..Len(trace) :
        trace[q].op = "errlog"

Absent(k) == targets[k] \notin DOMAIN name2id

FirstAbsent(k) ==
    /\ k \in 1..Len(targets)
    /\ Absent(k)
    /\ \A j \in 1..(k - 1) : ~Absent(j)

\* C1: power workflow, every list element resolves and no call fails: the
\* power calls and delays alternate, starting with a power call; the i-th
\* power call targets the identifier of the i-th element at the requested
\* level; every delay lasts 10 seconds; on exit 0 there are exactly n power
\* calls and n-1 delays, so the last event of the two kinds is a power call
C1_PowerCallsAndDelays ==
    IsPower =>
        LET pd == Only({"power", "delay"})
            n  == Len(targets)
        IN  /\ \A j \in 1..Len(pd) :
                 IF j % 2 = 1
                 THEN /\ pd[j].op = "power"
                      /\ pd[j].i = (j + 1) \div 2
                      /\ targets[pd[j].i] \in DOMAIN name2id
                      /\ pd[j].arg = <<name2id[targets[pd[j].i]], level>>
                 ELSE /\ pd[j].op = "delay"
                      /\ pd[j].i = j \div 2
                      /\ pd[j].ms = DelayMs
            /\ exitCode = 0 =>
                 /\ Len(pd) = 2 * n - 1
                 /\ Cardinality(At("power")) = n
                 /\ Cardinality(At("delay")) = n - 1
            /\ (vmmax > 0 /\ ~Thrown /\ \A k \in 1..n : ~Absent(k)) =>
                 Len(pd) <= 2 * n - 1

C1_Witness ==
    /\ IsPower
    /\ exitCode = 0
    /\ Len(targets) = 3
    /\ targets[1] = targets[3]
    /\ Cardinality(At("delay")) = 2

\* C2: power workflow, the k-th element is the first one absent from the
\* table: no power call is ever issued for the k-th or a later element, every
\* power call issued carries the requested level (none undoes an earlier
\* one), the process never exits 0, and unless a request failed first the
\* workflow ends with the 'invalid VM name' error raised at element k after
\* exactly k-1 power calls
C2_InvalidNameStops ==
    (IsPower /\ vmmax > 0) =>
        \A k \in 1..Len(targets) : FirstAbsent(k) =>
            /\ \A p \in At("power") :
                 /\ trace[p].i < k
                 /\ trace[p].arg[2] = level
            /\ exitCode # 0
            /\ pc # "finish"
            /\ err \in {"none", "request", "invalid VM name"}
            /\ err = "invalid VM name" =>
                 /\ \E p \in At("throw") : trace[p].i = k
                 /\ Cardinality(At("power")) = k - 1
                 /\ \A j \in 1..(k - 1) : \E p \in At("power") : trace[p].i = j
            /\ (pc = "exited" /\ At("fail") = {}) =>
                 /\ err = "invalid VM name"
                 /\ exitCode = 1

C2_Witness ==
    /\ IsPower
    /\ pc = "exited"
    /\ err = "invalid VM name"
    /\ FirstAbsent(3)
    /\ Cardinality(At("power")) = 2

\* the printed text is the captured text with the prefix put in front of
\* every line and nowhere else
LinesPrefixed(text, p, out) ==
    /\ SelectSeq(text, LAMBDA c : c \in {"x"} \cup LineTerminators) = out
    /\ SubSeq(text, 1, Len(p)) = p
    /\ \A q \in 1..Len(text) : text[q] \in LineTerminators =>
           SubSeq(text, q + 1, q + Len(p)) = p
    /\ Len(text) = Len(out) +
           Len(p) * (1 + Cardinality({q \in 1..Len(out) :
                                          out[q] \in LineTerminators}))

\* C3: exec workflow: the j-th connection opened is the one to the j-th host
\* (one per host, in list order; all n of them on exit 0), and a host's
\* captured output is printed, every line prefixed by username@host, exactly
\* when it is not empty
C3_ConnectAndPrint ==
    command = "exec" =>
        LET cs == Only({"connect"})
        IN  /\ \A j \in 1..Len(cs) :
                 cs[j].i = j /\ cs[j].arg = targets[j]
            /\ Len(cs) <= Len(targets)
            /\ exitCode = 0 => Len(cs) = Len(targets)
            /\ \A p \in At("stdout") :
                 (trace[p].arg # <<>>) <=>
                     /\ p < Len(trace)
                     /\ trace[p + 1].op = "print"
                     /\ trace[p + 1].i = trace[p].i
            /\ \A p \in At("print") :
                 /\ p > 1
                 /\ trace[p - 1].op = "stdout"
                 /\ trace[p - 1].i = trace[p].i
                 /\ LinesPrefixed(trace[p].arg, Prefix(targets[trace[p].i]),
                                  trace[p - 1].arg)

C3_Witness ==
    /\ command = "exec"
    /\ exitCode = 0
    /\ Len(targets) >= 2
    /\ \E p \in At("stdout") : trace[p].arg = <<>>
    /\ \E p \in At("print") : Len(trace[p].arg) > Len(Prefix(targets[trace[p].i])) + 2

\* C4: power workflow: once a panel page lacking one of the three markers has
\* arrived, no request is issued any more (no servers GET, no power PATCH),
\* the failure is raised, and the process exits with 1, never with 0
C4_MissingMarkerStops ==
    \A p \in At("panelres") : Len(trace[p].arg) < Len(Markers) =>
        /\ \A q \in (p + 1)..Len(trace) : trace[q].op \notin Requests
        /\ At("servers") = {} /\ At("power") = {}
        /\ inflight = 0
        /\ Thrown
        /\ exitCode # 0
        /\ pc \in {"thrown", "exited"}
        /\ pc = "exited" => exitCode = 1

C4_Witness ==
    /\ pc = "exited"
    /\ exitCode = 1
    /\ \E p \in At("panelres") : trace[p].arg = <<"user", "token">>

\* C5: exit status: 0 only after a matched command's workflow has completed
\* without error; 1 when no command matched, with nothing prompted, issued or
\* printed before; 1 after any error, the handler having printed it, with no
\* workflow operation after the first error
C5_ExitStatus ==
    /\ exitCode \in {-1, 0, 1}
    /\ (pc = "exited") <=> (exitCode # -1)
    /\ exitCode = 0 =>
         /\ command # "null"
         /\ ~Thrown /\ err = "none" /\ At("fail") = {}
         /\ idx = Len(targets) + 1
         /\ inflight = 0 /\ ~timer
         /\ IsPower => \A k \in 1..Len(targets) :
                           \E p \in At("power") : trace[p].i = k
         /\ command = "exec" => \A k \in 1..Len(targets) :
                                    \E p \in At("stdout") : trace[p].i = k
    /\ command = "null" =>
         /\ trace = <<>> /\ inflight = 0
         /\ pc \in {"start", "exited"}
         /\ exitCode # 0
    /\ (Thrown \/ err # "none" \/ At("fail") # {}) =>
         /\ Thrown /\ err # "none"
         /\ Cardinality(At("throw")) = 1
         /\ NothingAfterThrow
         /\ inflight = 0
         /\ exitCode # 0
         /\ pc \in {"thrown", "exited"}
         /\ pc = "exited" =>
              /\ exitCode = 1
              /\ Cardinality(At("errlog")) = 2
              /\ \A p \in At("errlog") : trace[p].arg = <<err>>
    /\ At("errlog") # {} => Thrown

C5_Witness ==
    /\ pc = "exited"
    /\ exitCode = 1
    /\ err = "request"
    /\ Cardinality(At("connect")) = 2
    /\ Cardinality(At("errlog")) = 2

\* C6: exec workflow: once the connection to or the command on the k-th host
\* has failed, the failure is raised at once, no host after the k-th is ever
\* connected to, and the process exits with 1, never with 0
C6_HostFailureAborts ==
    command = "exec" =>
        \A p \in At("fail") :
            LET k == trace[p].i
            IN  /\ trace[p].arg[1] \in {"connect", "exec"}
                /\ p < Len(trace) /\ trace[p + 1].op = "throw"
                /\ \A q \in At("connect") : trace[q].i <= k /\ q < p
                /\ \A q \in (p + 1)..Len(trace) : trace[q].op \notin Requests
                /\ exitCode # 0
                /\ pc = "exited" => exitCode = 1

C6_Witness ==
    /\ command = "exec"
    /\ pc = "exited"
    /\ exitCode = 1
    /\ Len(targets) >= 2
    /\ \E p \in At("fail") : trace[p].i = 1 /\ trace[p].arg = <<"connect">>

\* C7: at most one request is in flight; one is in flight exactly while the
\* program awaits its response; the delay timer runs only while no request
\* is in flight, so it starts after the preceding power call has returned and
\* has fired before the next one is issued
C7_OneRequestInFlight ==
    /\ inflight \in {0, 1}
    /\ (inflight = 1) <=> (pc \in Requests)
    /\ timer <=> (pc = "delay")
    /\ timer => inflight = 0
    /\ timer => trace[Len(trace)].op = "delay"
    /\ \A p \in At("delay") :
         /\ p > 1 /\ trace[p - 1].op = "power"
         /\ p < Len(trace) => trace[p + 1].op \in {"status", "throw"}

C7_Witness ==
    /\ inflight = 1
    /\ pc = "power"
    /\ idx = 2
    /\ At("delay") # {}

C8_Order ==
    IsPower =>
        /\ Cardinality(At("prompt")) <= 1
        /\ At("prompt") # {} => (password # "cli" /\ trace[1].op = "prompt")
        /\ password = "cli" => At("prompt") = {}
        /\ (password = Undefined /\ pc # "start") =>
               (At("prompt") # {} /\ \A p \in 1..Len(trace) :
                                         trace[p].op \notin Requests)
        /\ LET rs == Only({"login", "panel", "servers"})
           IN  /\ Len(rs) <= 3
               /\ Len(rs) >= 1 => rs[1].op = "login"
               /\ Len(rs) >= 2 => rs[2].op = "panel"
               /\ Len(rs) >= 3 => rs[3].op = "servers"
        /\ \A p \in At("power") :
               /\ \E q \in At("servers") : q < p
               /\ \E q \in At("panelres") : trace[q].arg = Markers
               /\ vmmax > 0
        /\ vmmax = 0 => name2id = Name2Id(<<>>)

C8_TableFixed == (vmmax > 0) => (name2id' = name2id)

\* C8: power workflow: the password is prompted for at most once, only when
\* none was given on the command line, and before any request; the login
\* POST, the panel GET and the servers GET are issued at most once each, in
\* that order, all three before the first power call, which needs the panel
\* markers found and the server list received; once built from that list,
\* name2id never changes
C8_StepOrder == [](C8_Order) /\ [][C8_TableFixed]_vars

C8_Witness ==
    /\ IsPower
    /\ At("prompt") # {}
    /\ password = "prompted"
    /\ pc = "power"
    /\ idx = 2

\* C9: exec workflow: at most one remote-login connection is open
C9_OneConnectionOpen == Cardinality(open) <= 1

\* C10 as stated: a VM's status line is printed only after the power call
\* for that VM has been issued
C10_StatusAfterPower ==
    \A p \in At("status") :
        \E q \in At("power") : q < p /\ trace[q].i = trace[p].i

\* C10 amended: per VM the order is lookup, status line, power call: a status
\* line is printed only for an element found in the table, names that element
\* and the level, and is followed at once by the power call for it; every
\* power call follows its status line; an element whose lookup failed, or
\* that was never reached, has no status line
C10_StatusBeforePower ==
    IsPower =>
        /\ \A p \in At("status") :
               /\ ~Absent(trace[p].i)
               /\ trace[p].arg = targets[trace[p].i] \o <<level>>
               /\ p < Len(trace)
               /\ trace[p + 1].op = "power"
               /\ trace[p + 1].i = trace[p].i
        /\ \A q \in At("power") :
               /\ q > 1
               /\ trace[q - 1].op = "status"
               /\ trace[q - 1].i = trace[q].i
        /\ \A p \in At("throw") : trace[p].arg = <<"invalid VM name">> =>
               \A q \in At("status") : trace[q].i < trace[p].i
        /\ \A q \in At("status") : trace[q].i <= idx
        /\ Cardinality(At("status")) <= Len(targets)

C10_Witness ==
    /\ IsPower
    /\ pc = "exited"
    /\ exitCode = 1
    /\ Cardinality(At("status")) = 2
    /\ \E p \in At("fail") : trace[p].i = 2 /\ trace[p].arg = <<"power">>
====
